---- MODULE Spec2Model ----
(***************************************************************************)
(* A model of the region-analysis routines of EVE (src/eve.py):            *)
(* label_regions_slow, fill_outline, extract, find_peaks and high_peaks,   *)
(* and of its drawing routines draw_line_fast, draw_line and               *)
(* draw_circle_fast.                                                       *)
(* An image is a function from the pixel positions <<y, x>> to the         *)
(* sequence of its channel values (channel c of the source is entry c+1). *)
(* Each routine is a state machine of its own; pc is its position.         *)
(***************************************************************************)
EXTENDS Integers, Sequences, FiniteSets, TLC

VARIABLES
    pc,         \* position of the routine that is running
    im,         \* the caller's image (fill_outline modifies it)
    ny, nx, nc, \* sizes (im)
    y, x,       \* the loop indices of the routine
    con8,       \* label_regions_slow: the connectivity flag
    lab,        \* label_regions_slow: channel 0 of the label image
    equiv,      \* label_regions_slow: the equivalence table, equiv[i+1] for label i
    lastlabel,  \* label_regions_slow: the last provisional label handed out
    count,      \* label_regions_slow: the second value returned, max (lab)
    im0,        \* the image as the caller passed it
    seed,       \* fill_outline: the arguments <<y, x>> of the call
    v,          \* fill_outline: the fill value
    threshold,  \* fill_outline, find_peaks: the threshold
    vc,         \* fill_outline: the sum of the channels of the seed pixel
    edge,       \* fill_outline: the list of edge pixels
    k,          \* fill_outline: the position of "for (y, x) in edge" in edge
    newedge,    \* fill_outline: the next list of edge pixels
    ry, rx,     \* extract: the size of the region asked for
    yc, xc,     \* extract: the centre of the region, in halves of a pixel
    step,       \* extract: the step size (ystep = xstep = step)
    wrap,       \* extract: the wrap flag
    val,        \* extract: the value of the pixels outside the image
    interpolator, \* extract: the name of the interpolation scheme
    region,     \* extract: the image returned, [h, w, at]
    shared,     \* extract: None, or <<y0, x0>> when region is a view of im
    peaks,      \* find_peaks, high_peaks: the list of peaks <<value, y, x>>
    peaks0,     \* high_peaks: the list as the caller passed it
    factor,     \* high_peaks: the factor, in halves
    n,          \* high_peaks: the number of peaks kept
    high,       \* high_peaks: the list returned
    args,       \* drawing: the arguments of the call, as the caller gave them
    ends,       \* draw_line_fast, draw_line: <<y0, x0, y1, x1>> of the routine
    steep,      \* draw_line_fast, draw_line: the flag steep
    de,         \* draw_line_fast, draw_line: the slope de, <<numerator, denominator>>
    err,        \* draw_line_fast: the error e, counted in 1 / (2 * denominator of de)
    ystep,      \* draw_line_fast: the step of y
    intery,     \* draw_line: intery, counted in 1 / (denominator of de)
    xpxl2,      \* draw_line: the end of the main loop
    centre,     \* draw_circle_fast: <<yc, xc>>
    radius,     \* draw_circle_fast: r
    dec,        \* draw_circle_fast: the decision variable p
    fill,       \* draw_circle_fast, draw_circle: << >> for fill = None, or <<fill>>
    acc,        \* hough_line: the accumulator, acc[a,r,0] for <<a, r>>
    bins,       \* hough_line: <<na, nr>>
    abin,       \* hough_line: the angular bin a
    rad         \* hough_line: << >> before r is assigned, then <<r>>, in halves

vars == <<pc, im, ny, nx, nc, y, x, con8, lab, equiv, lastlabel, count,
          im0, seed, v, threshold, vc, edge, k, newedge,
          ry, rx, yc, xc, step, wrap, val, interpolator, region, shared,
          peaks, peaks0, factor, n, high,
          args, ends, steep, de, err, ystep, intery, xpxl2, centre, radius, dec,
          fill, acc, bins, abin, rad>>

imVars == <<im, ny, nx, nc, im0>>
labelVars == <<con8, lab, equiv, lastlabel, count>>
fillVars == <<seed, v, threshold, vc, edge, k, newedge>>
extractVars == <<ry, rx, yc, xc, step, wrap, val, interpolator, region, shared>>

\* what a routine leaves alone: the variables of the other routines
peakVars == <<peaks, peaks0, factor, n, high>>
drawVars == <<args, ends, steep, de, err, ystep, intery, xpxl2, centre, radius, dec,
          fill>>
houghVars == <<acc, bins, abin, rad>>
notLabel == <<fillVars, extractVars, peakVars, drawVars, houghVars>>
notFill == <<labelVars, extractVars, peakVars, drawVars, houghVars>>
notExtract == <<labelVars, fillVars, peakVars, drawVars, houghVars>>
\* find_peaks and high_peaks have the threshold of fillVars
notPeaks == <<labelVars, seed, v, vc, edge, k, newedge, extractVars, drawVars,
              houghVars>>
\* the drawing routines have the v of fillVars
notDraw == <<labelVars, seed, threshold, vc, edge, k, newedge, extractVars, peakVars,
             houghVars>>
\* hough_line has the v and the threshold of fillVars, the yc and xc of
\* extractVars and the peaks of peakVars
notHough == <<labelVars, seed, vc, edge, k, newedge, ry, rx, step, wrap, val,
              interpolator, region, shared, peaks0, factor, n, high, drawVars>>

\* the routines that are not running
NoLabel == con8 = "none" /\ lab = "none" /\ equiv = "none" /\ lastlabel = "none"
           /\ count = "none"
NoFill == seed = "none" /\ v = "none" /\ threshold = "none" /\ vc = "none"
          /\ edge = "none" /\ k = "none" /\ newedge = "none"
NoExtract == ry = "none" /\ rx = "none" /\ yc = "none" /\ xc = "none"
             /\ step = "none" /\ wrap = "none" /\ val = "none"
             /\ interpolator = "none" /\ region = "none" /\ shared = "none"
NoPeaks == peaks = "none" /\ peaks0 = "none" /\ factor = "none" /\ n = "none"
           /\ high = "none"
NoDraw == args = "none" /\ ends = "none" /\ steep = "none" /\ de = "none"
          /\ err = "none" /\ ystep = "none" /\ intery = "none"
          /\ xpxl2 = "none" /\ centre = "none" /\ radius = "none"
          /\ dec = "none" /\ fill = "none"
NoHough == acc = "none" /\ bins = "none" /\ abin = "none" /\ rad = "none"

\* the value of a variable that the running routine does not have
None == "none"

(***************************************************************************)
(* Bounds of the model.                                                    *)
(***************************************************************************)
\* label_regions_slow: images of at most this many pixels
LabMaxArea == 12
\* fill_outline: images of at most this many pixels
FillMaxArea == 4
\* fill_outline: a run is followed while newedge holds at most this many pixels
FillMaxEdge == 4
\* extract: source images of at most this many pixels
ExtMaxArea == 4
\* extract: regions of at most this many rows and columns
ExtMaxOut == 4
\* find_peaks: images of at most this many pixels
PeakMaxArea == 15
\* find_peaks: images with at most this many pixels that are not zero
PeakMaxNonZero == 3
\* high_peaks: lists of at most this many peaks
HighMaxLen == 3

(***************************************************************************)
(* Images.                                                                 *)
(***************************************************************************)
Pix(h, w) == (0 .. h - 1) \X (0 .. w - 1)

\* the single-channel images of h rows and w columns with values in vals
MonoImages(h, w, vals) == [Pix(h, w) -> {<<u>> : u \in vals}]

\* im[y,x,0]
Ch0(img, p) == img[p][1]

\* the images of h rows, w columns and c channels with values in vals
Images(h, w, c, vals) == [Pix(h, w) -> [1 .. c -> vals]]

\* the shapes <<rows, columns>> of the images of at most area pixels
Shapes(area) == {s \in (1 .. area) \X (1 .. area) : s[1] * s[2] <= area}

\* abs ()
Abs(a) == IF a < 0 THEN -a ELSE a

\* the numeric maximum of a non-empty set
SetMax(S) == CHOOSE m \in S : \A e \in S : e <= m

\* the index i of an axis of len elements, as numpy takes it: a negative
\* index counts from the end, and -1 stands for the IndexError
NumpyIndex(i, len) ==
    IF i >= 0 /\ i < len THEN i
    ELSE IF i < 0 /\ i >= -len THEN i + len
    ELSE -1

\* the pixel that im[py,px] is, or <<-1, -1>> for the IndexError
NumpyPixel(h, w, py, px) ==
    IF NumpyIndex(py, h) = -1 \/ NumpyIndex(px, w) = -1 THEN <<-1, -1>>
    ELSE <<NumpyIndex(py, h), NumpyIndex(px, w)>>

(***************************************************************************)
(* label_regions_slow                                                      *)
(***************************************************************************)
\* equiv[i] of the source
Eq(eq, i) == eq[i + 1]

EqSet(eq, i, to) == [eq EXCEPT ![i + 1] = to]

\* lastcol of the source: the upper-right neighbour is not looked at
LastCol(c8, px, w) == (px + 1 >= w - 1) /\ c8

\* Causal with the test of con8 forgotten: the diagonal neighbours are always
\* looked at
CausalAlways8(c8, py, px, w) ==
    IF px + 1 >= w - 1
    THEN << <<py, px - 1>>, <<py - 1, px>>, <<py - 1, px - 1>> >>
    ELSE << <<py, px - 1>>, <<py - 1, px>>, <<py - 1, px - 1>>,
            <<py - 1, px + 1>> >>

\* Causal with the neighbour above forgotten when con8 is False
CausalLeftOnly(c8, py, px, w) ==
    IF ~c8 THEN << <<py, px - 1>> >>
    ELSE CausalAlways8(c8, py, px, w)

\* the causal neighbours whose values and labels go into vals[0 .. nv-1] and
\* labs[0 .. nv-1], in the order of the source
Causal(c8, py, px, w) ==
    IF ~c8 THEN << <<py, px - 1>>, <<py - 1, px>> >>
    ELSE IF LastCol(c8, px, w)
         THEN << <<py, px - 1>>, <<py - 1, px>>, <<py - 1, px - 1>> >>
         ELSE << <<py, px - 1>>, <<py - 1, px>>, <<py - 1, px - 1>>,
                 <<py - 1, px + 1>> >>

\* matches before the sort: the labels of the causal neighbours with the value
RECURSIVE Matches(_, _, _, _)
Matches(img, lb, pval, cand) ==
    IF cand = << >> THEN << >>
    ELSE LET rest == Matches(img, lb, pval, Tail(cand))
         IN IF Ch0(img, Head(cand)) = pval
            THEN <<lb[Head(cand)]>> \o rest
            ELSE rest

\* list.sort () on a list of integers
RECURSIVE Insert(_, _)
Insert(s, e) ==
    IF s = << >> THEN <<e>>
    ELSE IF e <= Head(s) THEN <<e>> \o s
         ELSE <<Head(s)>> \o Insert(Tail(s), e)

RECURSIVE Sort(_)
Sort(s) == IF s = << >> THEN << >> ELSE Insert(Sort(Tail(s)), Head(s))

\* MergeOne with the second assignment turned round: the smaller label is
\* made to point at the larger
MergeOneUp(eq, lv, m) ==
    IF Eq(eq, m) > lv THEN EqSet(eq, m, lv)
    ELSE IF lv > Eq(eq, m) THEN EqSet(eq, Eq(eq, m), lv)
    ELSE eq

\* one iteration of "for v in matches[1:]", m being the v of the source
MergeOne(eq, lv, m) ==
    IF Eq(eq, m) > lv THEN EqSet(eq, m, lv)
    ELSE IF lv > Eq(eq, m) THEN EqSet(eq, lv, Eq(eq, m))
    ELSE eq

\* the loop "for v in matches[1:]"
RECURSIVE MergeAll(_, _, _)
MergeAll(eq, lv, rest) ==
    IF rest = << >> THEN eq
    ELSE MergeAll(MergeOne(eq, lv, Head(rest)), lv, Tail(rest))

\* "while equiv[v] != v: v = equiv[v]"
RECURSIVE Root(_, _)
Root(eq, r) == IF Eq(eq, r) = r THEN r ELSE Root(eq, Eq(eq, r))

\* the loop that tidies up the equivalence table: remap, built from label i on;
\* ncount is the local nc of the source
RECURSIVE Remap(_, _, _, _)
Remap(eq, i, remap, ncount) ==
    IF i >= Len(eq) THEN remap
    ELSE IF Eq(eq, i) = i
         THEN Remap(eq, i + 1, Append(remap, ncount + 1), ncount + 1)
         ELSE Remap(eq, i + 1, Append(remap, remap[Root(eq, i) + 1]), ncount)

\* max (lab): every channel of lab but channel 0 is still zero
MaxLab(lb) == SetMax({lb[p] : p \in DOMAIN lb} \cup {0})

\* the state of label_regions_slow when it has made lab, lastlabel and equiv;
\* an image may have no rows or no columns
InitLabel ==
    /\ \E h \in 0 .. LabMaxArea : \E w \in 0 .. LabMaxArea :
          /\ h * w <= LabMaxArea
          /\ ny = h
          /\ nx = w
          /\ im \in MonoImages(h, w, {0, 1})
          /\ lab = [p \in Pix(h, w) |-> 0]
    /\ pc = "start"
    /\ y = None
    /\ x = None
    /\ nc = 1
    /\ con8 \in BOOLEAN
    /\ lastlabel = 0
    /\ equiv = <<0>>
    /\ count = None
    /\ im0 = im
    /\ NoFill
    /\ NoExtract
    /\ NoPeaks
    /\ NoDraw
    /\ NoHough

\* "lab[0,0,0] = lastlabel": an image without pixels has no lab[0,0,0]
LabelStart ==
    /\ pc = "start"
    /\ IF NumpyPixel(ny, nx, 0, 0) = <<-1, -1>>
       THEN /\ pc' = "IndexError"
            /\ UNCHANGED <<lab, y, x>>
       ELSE /\ lab' = [lab EXCEPT ![NumpyPixel(ny, nx, 0, 0)] = lastlabel]
            /\ pc' = IF nx > 1 THEN "row" ELSE IF ny > 1 THEN "col" ELSE "tidy"
            /\ y' = IF nx > 1 THEN 0 ELSE 1
            /\ x' = IF nx > 1 THEN 1 ELSE 0
    /\ UNCHANGED <<imVars, con8, equiv, lastlabel, count, notLabel>>

\* one iteration of the loop over the rest of the first row
LabelRow ==
    /\ pc = "row"
    /\ LET new == Ch0(im, <<y, x>>) # Ch0(im, <<y, x - 1>>)
           ll == IF new THEN lastlabel + 1 ELSE lastlabel
       IN /\ lastlabel' = ll
          /\ equiv' = IF new THEN Append(equiv, ll) ELSE equiv
          /\ lab' = [lab EXCEPT ![<<y, x>>] = ll]
    /\ IF x + 1 < nx
       THEN /\ x' = x + 1
            /\ UNCHANGED <<pc, y>>
       ELSE /\ pc' = IF ny > 1 THEN "col" ELSE "tidy"
            /\ x' = 0
            /\ y' = 1
    /\ UNCHANGED <<imVars, con8, count, notLabel>>

\* one iteration of the loop over the first column
LabelCol ==
    /\ pc = "col"
    /\ LET same == Ch0(im, <<y, x>>) = Ch0(im, <<y - 1, x>>)
           ll == IF same THEN lastlabel ELSE lastlabel + 1
           lv == IF same THEN lab[<<y - 1, x>>] ELSE ll
       IN /\ lastlabel' = ll
          /\ equiv' = IF same THEN equiv ELSE Append(equiv, ll)
          /\ lab' = [lab EXCEPT ![<<y, x>>] = lv]
    /\ IF y + 1 < ny
       THEN /\ y' = y + 1
            /\ UNCHANGED <<pc, x>>
       ELSE /\ pc' = IF nx > 1 THEN "rest" ELSE "tidy"
            /\ y' = 1
            /\ x' = 1
    /\ UNCHANGED <<imVars, con8, count, notLabel>>

\* one iteration of the loops over the remainder of the image
LabelRest ==
    /\ pc = "rest"
    /\ LET pval == Ch0(im, <<y, x>>)
           matches == Sort(Matches(im, lab, pval, Causal(con8, y, x, nx)))
           inreg == matches # << >>
           ll == IF inreg THEN lastlabel ELSE lastlabel + 1
           lv == IF inreg THEN matches[1] ELSE ll
       IN /\ lastlabel' = ll
          /\ equiv' = IF inreg THEN MergeAll(equiv, lv, Tail(matches))
                               ELSE Append(equiv, ll)
          /\ lab' = [lab EXCEPT ![<<y, x>>] = lv]
    /\ IF x + 1 < nx
       THEN /\ x' = x + 1
            /\ UNCHANGED <<pc, y>>
       ELSE IF y + 1 < ny
            THEN /\ x' = 1
                 /\ y' = y + 1
                 /\ UNCHANGED pc
            ELSE /\ pc' = "tidy"
                 /\ UNCHANGED <<y, x>>
    /\ UNCHANGED <<imVars, con8, count, notLabel>>

\* the tidying of the equivalence table, the second pass and the return
LabelTidy ==
    /\ pc = "tidy"
    /\ LET remap == Remap(equiv, 0, << >>, -1)
           relab == [p \in Pix(ny, nx) |-> remap[lab[p] + 1]]
       IN /\ lab' = relab
          /\ count' = MaxLab(relab)
    /\ pc' = "done"
    /\ UNCHANGED <<imVars, y, x, con8, equiv, lastlabel, notLabel>>

NextLabel == LabelStart \/ LabelRow \/ LabelCol \/ LabelRest \/ LabelTidy

SpecLabel == InitLabel /\ [][NextLabel]_vars

(***************************************************************************)
(* fill_outline                                                            *)
(***************************************************************************)
\* im[t,s].sum ()
RECURSIVE SeqSum(_)
SeqSum(s) == IF s = << >> THEN 0 ELSE Head(s) + SeqSum(Tail(s))

PixSum(img, p) == SeqSum(img[p])

\* im[t,s] = v: the value goes into every channel
SetPix(img, p, pval) == [img EXCEPT ![p] = [c \in DOMAIN img[p] |-> pval]]

\* Around without the neighbour above
AroundThree(py, px) == << <<py, px + 1>>, <<py, px - 1>>, <<py + 1, px>> >>

\* the neighbours of (y, x) in the order of the source
Around(py, px) == << <<py, px + 1>>, <<py, px - 1>>, <<py + 1, px>>, <<py - 1, px>> >>

\* the test that makes (t, s) a pixel to colour
Eligible(img, h, w, sum0, th, p) ==
    /\ p[2] >= 0 /\ p[2] < w /\ p[1] >= 0 /\ p[1] < h
    /\ Abs(PixSum(img, p) - sum0) < th

\* the loop over the neighbours of one edge pixel: the pair <<im, newedge>>
RECURSIVE VisitAround(_, _, _, _, _, _, _, _)
VisitAround(img, newe, h, w, sum0, th, pval, ps) ==
    IF ps = << >> THEN <<img, newe>>
    ELSE IF Eligible(img, h, w, sum0, th, Head(ps))
         THEN VisitAround(SetPix(img, Head(ps), pval), Append(newe, Head(ps)),
                          h, w, sum0, th, pval, Tail(ps))
         ELSE VisitAround(img, newe, h, w, sum0, th, pval, Tail(ps))

\* fill_outline is called
InitFill ==
    /\ \E s \in Shapes(FillMaxArea) : \E c \in {1, 2} :
          /\ ny = s[1]
          /\ nx = s[2]
          /\ nc = c
          /\ im \in Images(s[1], s[2], c, {0, 1})
          /\ y \in -1 .. s[1]
          /\ x \in -1 .. s[2]
    /\ im0 = im
    /\ seed = <<y, x>>
    /\ v \in {0, 1, 2}
    /\ threshold \in {0, 1, 2}
    /\ pc = "start"
    /\ vc = None
    /\ edge = << >>
    /\ k = 1
    /\ newedge = << >>
    /\ NoLabel
    /\ NoExtract
    /\ NoPeaks
    /\ NoDraw
    /\ NoHough

\* the tests before the loop and the colouring of the seed
FillStart ==
    /\ pc = "start"
    /\ IF x < 0 \/ x >= nx \/ y < 0 \/ y >= ny
       THEN /\ pc' = "done"
            /\ UNCHANGED <<im, vc, edge>>
       ELSE /\ vc' = PixSum(im, <<y, x>>)
            /\ IF Abs(vc' - v) < threshold
               THEN /\ pc' = "done"
                    /\ UNCHANGED <<im, edge>>
               ELSE /\ im' = SetPix(im, <<y, x>>, v)
                    /\ edge' = << <<y, x>> >>
                    /\ pc' = "loop"
    /\ UNCHANGED <<ny, nx, nc, im0, y, x, seed, v, threshold, k, newedge, notFill>>

\* one iteration of "for (y, x) in edge"
FillVisit ==
    /\ pc = "loop"
    /\ k <= Len(edge)
    /\ LET r == VisitAround(im, newedge, ny, nx, vc, threshold, v,
                            Around(edge[k][1], edge[k][2]))
       IN /\ im' = r[1]
          /\ newedge' = r[2]
          /\ pc' = IF Len(r[2]) > FillMaxEdge THEN "cut" ELSE "loop"
    /\ y' = edge[k][1]
    /\ x' = edge[k][2]
    /\ k' = k + 1
    /\ UNCHANGED <<ny, nx, nc, im0, seed, v, threshold, vc, edge, notFill>>

\* the end of the for loop: "edge = newedge" and the test of "while edge"
FillSwap ==
    /\ pc = "loop"
    /\ k > Len(edge)
    /\ edge' = newedge
    /\ newedge' = << >>
    /\ k' = 1
    /\ pc' = IF newedge = << >> THEN "done" ELSE "loop"
    /\ UNCHANGED <<imVars, y, x, seed, v, threshold, vc, notFill>>

NextFill == FillStart \/ FillVisit \/ FillSwap

SpecFill == InitFill /\ [][NextFill]_vars

\* fill_outline runs to its end unless it loops: a call is not abandoned
FairSpecFill == SpecFill /\ WF_vars(NextFill)

(***************************************************************************)
(* extract                                                                 *)
(* The calls followed have angle = 0, so that cosfac = 1 and sinfac = 0,   *)
(* a scalar step and a single-channel source.  Positions on the source     *)
(* (yc, xc, y0, x0, ypos, xpos) and the weights dy, dx are counted in      *)
(* halves of a pixel; the values of the source are multiples of 4, which   *)
(* keeps every interpolated value an integer.                              *)
(***************************************************************************)
\* int () of a position given in halves: truncation towards zero
IntOfHalves(a) == IF a >= 0 THEN a \div 2 ELSE -((-a) \div 2)

\* y0 = yc - ry / 2, in halves
Corner(c, r) == c - r

\* the test that selects the copy of a sub-region
FastPath(st, h, w, rh, rw, y0, x0) ==
    /\ st = 1
    /\ rh < h /\ rw < w
    /\ y0 >= 0 /\ x0 >= 0
    /\ y0 % 2 = 0 /\ x0 % 2 = 0

\* the bounds a : b of a slice of an axis of len elements, 0 <= a
SliceLo(a, len) == IF a > len THEN len ELSE a
SliceHi(b, len) == IF b > len THEN len ELSE b

\* im[y0:y0+ry, x0:x0+rx]: the rows and columns of im that exist
SliceOf(img, h, w, a, rh, c, rw) ==
    LET ylo == SliceLo(a, h)
        yhi == SliceHi(a + rh, h)
        xlo == SliceLo(c, w)
        xhi == SliceHi(c + rw, w)
    IN [h |-> yhi - ylo, w |-> xhi - xlo,
        at |-> [p \in Pix(yhi - ylo, xhi - xlo) |-> img[<<ylo + p[1], xlo + p[2]>>]]]

\* Interp with an unknown name taken as 'bilinear'
InterpOrBilinear(name) ==
    IF name = "gradient" THEN 2
    ELSE IF name = "nearest" THEN 1
    ELSE 3

\* interp of the source: an unknown name is reported and taken as 'nearest'
Interp(name) ==
    IF name = "gradient" THEN 2
    ELSE IF name = "bilinear" THEN 3
    ELSE 1

\* mono (im) at a pixel: the mean of the channels
Mono(img, p) == SeqSum(img[p]) \div Len(img[p])

\* the bilinear value of a channel: yhi,xhi yhi,xlo ylo,xhi ylo,xlo
Bilinear(dy, dx, hh, hl, lh, ll) ==
    (dy * dx * hh + dy * (2 - dx) * hl + (2 - dy) * dx * lh
     + (2 - dy) * (2 - dx) * ll) \div 4

\* the two gradient values of a channel
GradientA(dy, dx, lh, ll, hh) == ((dx - dy) * lh + (2 - dx) * ll + dy * hh) \div 2
GradientB(dy, dx, ll, lh, hl) == (((2 - dx) - dy) * ll + dx * lh + dy * hl) \div 2

\* WrapIndex that stops at the first and the last pixel
WrapIndexClamp(i, len) == IF i >= len THEN len - 1 ELSE IF i < 0 THEN 0 ELSE i

\* "ylo = (ylo + ny) % ny", and the same for yhi, xlo and xhi
WrapIndex(i, len) == (i + len) % len

\* region[y,x] of the general path for the position (ypos, xpos)
Sample(img, h, w, wr, blank, interp, ypos, xpos) ==
    LET out == [c \in 1 .. Len(img[<<0, 0>>]) |-> blank]
        ylo == WrapIndex(IntOfHalves(ypos), h)
        dy == ypos - 2 * IntOfHalves(ypos)
        yhi == WrapIndex(ylo + 1, h)
        xlo == WrapIndex(IntOfHalves(xpos), w)
        dx == xpos - 2 * IntOfHalves(xpos)
        xhi == WrapIndex(xlo + 1, w)
    IN IF (ypos < 0 \/ ypos >= 2 * h \/ xpos < 0 \/ xpos >= 2 * w) /\ ~wr
       THEN out
       ELSE IF ylo + 1 >= h /\ ~wr THEN out
       ELSE IF xlo + 1 >= w /\ ~wr THEN out
       ELSE IF interp = 3
            THEN [c \in DOMAIN out |->
                    Bilinear(dy, dx, img[<<yhi, xhi>>][c], img[<<yhi, xlo>>][c],
                             img[<<ylo, xhi>>][c], img[<<ylo, xlo>>][c])]
       ELSE IF interp = 2
            THEN IF Abs(Mono(img, <<ylo, xlo>>) - Mono(img, <<yhi, xhi>>))
                    > Abs(Mono(img, <<yhi, xlo>>) - Mono(img, <<ylo, xhi>>))
                 THEN [c \in DOMAIN out |->
                         GradientA(dy, dx, img[<<ylo, xhi>>][c],
                                   img[<<ylo, xlo>>][c], img[<<yhi, xhi>>][c])]
                 ELSE [c \in DOMAIN out |->
                         GradientB(dy, dx, img[<<ylo, xlo>>][c],
                                   img[<<ylo, xhi>>][c], img[<<yhi, xlo>>][c])]
       ELSE img[<<ylo, xlo>>]

\* the region of the general path: yst = yc - disty * ystep, in halves, and
\* the position advances by the step from pixel to pixel
General(img, h, w, rh, rw, cy, cx, st, wr, blank, interp) ==
    [h |-> rh, w |-> rw,
     at |-> [p \in Pix(rh, rw) |->
               Sample(img, h, w, wr, blank, interp,
                      (cy - rh * st) + 2 * st * p[1],
                      (cx - rw * st) + 2 * st * p[2])]]

\* the source images: a ramp of distinct values and its mirror image
Ramp(h, w) == [p \in Pix(h, w) |-> <<4 * (p[1] * w + p[2] + 1)>>]
MirrorRamp(h, w) == [p \in Pix(h, w) |-> <<4 * (p[1] * w + (w - 1 - p[2]) + 1)>>]

\* extract is called
InitExtract ==
    /\ \E s \in Shapes(ExtMaxArea) :
          /\ ny = s[1]
          /\ nx = s[2]
          /\ im \in {Ramp(s[1], s[2]), MirrorRamp(s[1], s[2])}
          /\ yc \in 0 .. 2 * s[1] + 2
          /\ xc \in 0 .. 2 * s[2] + 2
    /\ nc = 1
    /\ im0 = im
    /\ ry \in 1 .. ExtMaxOut
    /\ rx \in 1 .. ExtMaxOut
    /\ step \in {1, 2}
    /\ wrap \in BOOLEAN
    /\ val = 1
    /\ interpolator \in {"gradient", "bilinear", "nearest", "cubic"}
    /\ region = None
    /\ shared = None
    /\ pc = "start"
    /\ y = 0
    /\ x = 0
    /\ NoLabel
    /\ NoFill
    /\ NoPeaks
    /\ NoDraw
    /\ NoHough

\* the copy of a sub-region: region is a slice of im, which shares its pixels
ExtractFast ==
    /\ pc = "start"
    /\ FastPath(step, ny, nx, ry, rx, Corner(yc, ry), Corner(xc, rx))
    /\ region' = SliceOf(im, ny, nx, Corner(yc, ry) \div 2, ry,
                         Corner(xc, rx) \div 2, rx)
    /\ shared' = <<SliceLo(Corner(yc, ry) \div 2, ny),
                   SliceLo(Corner(xc, rx) \div 2, nx)>>
    /\ pc' = "done"
    /\ UNCHANGED <<imVars, y, x, ry, rx, yc, xc, step, wrap, val, interpolator,
                   notExtract>>

\* the general path: region is a new image, filled pixel by pixel
ExtractGeneral ==
    /\ pc = "start"
    /\ ~FastPath(step, ny, nx, ry, rx, Corner(yc, ry), Corner(xc, rx))
    /\ region' = General(im, ny, nx, ry, rx, yc, xc, step, wrap, val,
                         Interp(interpolator))
    /\ shared' = None
    /\ y' = ry - 1
    /\ x' = rx - 1
    /\ pc' = "done"
    /\ UNCHANGED <<imVars, ry, rx, yc, xc, step, wrap, val, interpolator,
                   notExtract>>

\* after the return the caller sets a pixel of the image it got to 2; a
\* slice of im is a view, and the pixel of im changes with it
RegionWrite ==
    /\ pc = "done"
    /\ \E p \in Pix(region.h, region.w) :
          /\ region' = [region EXCEPT !.at[p] = [c \in DOMAIN @ |-> 2]]
          /\ im' = IF shared = None THEN im
                   ELSE SetPix(im, <<shared[1] + p[1], shared[2] + p[2]>>, 2)
    /\ pc' = "written"
    /\ UNCHANGED <<ny, nx, nc, im0, y, x, ry, rx, yc, xc, step, wrap, val,
                   interpolator, shared, notExtract>>

NextExtract == ExtractFast \/ ExtractGeneral \/ RegionWrite

SpecExtract == InitExtract /\ [][NextExtract]_vars

(***************************************************************************)
(* find_peaks                                                              *)
(***************************************************************************)
\* IsPeak with a threshold that a peak need only reach
IsPeakAtThreshold(img, py, px, th) ==
    LET c == Ch0(img, <<py, px>>)
    IN /\ c > Ch0(img, <<py - 1, px - 1>>)
       /\ c > Ch0(img, <<py - 1, px>>)
       /\ c > Ch0(img, <<py - 1, px + 1>>)
       /\ c > Ch0(img, <<py, px - 1>>)
       /\ c > Ch0(img, <<py, px + 1>>)
       /\ c > Ch0(img, <<py + 1, px - 1>>)
       /\ c > Ch0(img, <<py + 1, px>>)
       /\ c > Ch0(img, <<py + 1, px + 1>>)
       /\ c >= th

\* the test of find_peaks on the pixel (py, px)
IsPeak(img, py, px, th) ==
    LET c == Ch0(img, <<py, px>>)
    IN /\ c > Ch0(img, <<py - 1, px - 1>>)
       /\ c > Ch0(img, <<py - 1, px>>)
       /\ c > Ch0(img, <<py - 1, px + 1>>)
       /\ c > Ch0(img, <<py, px - 1>>)
       /\ c > Ch0(img, <<py, px + 1>>)
       /\ c > Ch0(img, <<py + 1, px - 1>>)
       /\ c > Ch0(img, <<py + 1, px>>)
       /\ c > Ch0(img, <<py + 1, px + 1>>)
       /\ c > th

\* the order of Python on lists of numbers of the same length: a < b
RECURSIVE ListLess(_, _)
ListLess(a, b) ==
    IF a = << >> THEN FALSE
    ELSE IF Head(a) # Head(b) THEN Head(a) < Head(b)
         ELSE ListLess(Tail(a), Tail(b))

\* peaks.sort (reverse=True): the largest peak first
RECURSIVE InsertDown(_, _)
InsertDown(s, e) ==
    IF s = << >> THEN <<e>>
    ELSE IF ListLess(Head(s), e) THEN <<e>> \o s
         ELSE <<Head(s)>> \o InsertDown(Tail(s), e)

\* a sort on the value alone that keeps peaks of equal value in the order in
\* which they were found
RECURSIVE InsertByValue(_, _)
InsertByValue(s, e) ==
    IF s = << >> THEN <<e>>
    ELSE IF Head(s)[1] <= e[1] THEN <<e>> \o s
         ELSE <<Head(s)>> \o InsertByValue(Tail(s), e)

RECURSIVE SortByValue(_)
SortByValue(s) ==
    IF s = << >> THEN << >> ELSE InsertByValue(SortByValue(Tail(s)), Head(s))

RECURSIVE SortDown(_)
SortDown(s) ==
    IF s = << >> THEN << >> ELSE InsertDown(SortDown(Tail(s)), Head(s))

\* the images of h rows and w columns with at most PeakMaxNonZero pixels of
\* value 1 or 2, the others being 0
SparseImages(h, w) ==
    {[p \in Pix(h, w) |-> IF p \in DOMAIN f THEN <<f[p]>> ELSE <<0>>] :
        f \in UNION {[S -> {1, 2}] :
                        S \in {T \in SUBSET Pix(h, w) :
                                  Cardinality(T) <= PeakMaxNonZero}}}

\* the 10 x 10 image that is zero but for 100 at (5, 5)
OnePeakImage ==
    [p \in Pix(10, 10) |-> IF p = <<5, 5>> THEN <<100>> ELSE <<0>>]

\* find_peaks is called
InitPeaks ==
    /\ \/ \E s \in Shapes(PeakMaxArea) :
             /\ ny = s[1]
             /\ nx = s[2]
             /\ im \in SparseImages(s[1], s[2])
             /\ threshold \in {0, 1}
       \/ /\ ny = 10
          /\ nx = 10
          /\ im = OnePeakImage
          /\ threshold \in {50, 150}
    /\ nc = 1
    /\ im0 = im
    /\ peaks = << >>
    /\ pc = IF ny > 2 /\ nx > 2 THEN "scan" ELSE "sort"
    /\ y = 1
    /\ x = 1
    /\ peaks0 = None /\ factor = None /\ n = None /\ high = None
    /\ seed = None /\ v = None /\ vc = None /\ edge = None /\ k = None
    /\ newedge = None
    /\ NoLabel
    /\ NoExtract
    /\ NoDraw
    /\ NoHough

\* one iteration of the loops over the pixels inside the border
PeakScan ==
    /\ pc = "scan"
    /\ peaks' = IF IsPeak(im, y, x, threshold)
                THEN Append(peaks, <<Ch0(im, <<y, x>>), y, x>>)
                ELSE peaks
    /\ IF x + 1 < nx - 1
       THEN /\ x' = x + 1
            /\ UNCHANGED <<pc, y>>
       ELSE IF y + 1 < ny - 1
            THEN /\ x' = 1
                 /\ y' = y + 1
                 /\ UNCHANGED pc
            ELSE /\ pc' = "sort"
                 /\ UNCHANGED <<y, x>>
    /\ UNCHANGED <<imVars, threshold, peaks0, factor, n, high, notPeaks>>

\* the sort and the return
PeakSort ==
    /\ pc = "sort"
    /\ peaks' = SortDown(peaks)
    /\ pc' = "done"
    /\ UNCHANGED <<imVars, y, x, threshold, peaks0, factor, n, high, notPeaks>>

NextPeaks == PeakScan \/ PeakSort

SpecPeaks == InitPeaks /\ [][NextPeaks]_vars

(***************************************************************************)
(* high_peaks                                                              *)
(* The factor and the local threshold are counted in halves.               *)
(***************************************************************************)
\* Below with "<=" for "<"
BelowOrEqual(ht, th) == 2 * ht <= th

\* "ht < threshold" for the threshold th, in halves
Below(ht, th) == 2 * ht < th

\* the lists of len peaks with values in vals at the positions pos, sorted
\* into descending order of value
SortedPeaks(len, vals, pos) ==
    {s \in [1 .. len -> vals \X pos \X pos] :
        \A i \in 1 .. len - 1 : s[i][1] >= s[i + 1][1]}

\* high_peaks is called
InitHigh ==
    /\ \E len \in 0 .. HighMaxLen : peaks \in SortedPeaks(len, -1 .. 2, {1, 2})
    /\ peaks0 = peaks
    /\ factor \in -1 .. 3
    /\ threshold = None
    /\ n = 0
    /\ high = None
    /\ pc = "start"
    /\ im = None /\ ny = None /\ nx = None /\ nc = None /\ im0 = None
    /\ y = None /\ x = None
    /\ seed = None /\ v = None /\ vc = None /\ edge = None /\ k = None
    /\ newedge = None
    /\ NoLabel
    /\ NoExtract
    /\ NoDraw
    /\ NoHough

\* threshold = peaks[0][0] * factor; an empty list has no peaks[0]
HighStart ==
    /\ pc = "start"
    /\ IF peaks = << >>
       THEN /\ pc' = "IndexError"
            /\ UNCHANGED threshold
       ELSE /\ pc' = "loop"
            /\ threshold' = peaks[1][1] * factor
    /\ UNCHANGED <<imVars, y, x, peaks, peaks0, factor, n, high, notPeaks>>

\* an iteration of the loop that counts a peak
HighCount ==
    /\ pc = "loop"
    /\ n < Len(peaks)
    /\ ~Below(peaks[n + 1][1], threshold)
    /\ n' = n + 1
    /\ y' = peaks[n + 1][2]
    /\ x' = peaks[n + 1][3]
    /\ UNCHANGED <<pc, imVars, threshold, peaks, peaks0, factor, high, notPeaks>>

\* the end of the loop, by the break or at the end of the list, and the return
HighReturn ==
    /\ pc = "loop"
    /\ IF n < Len(peaks)
       THEN /\ Below(peaks[n + 1][1], threshold)
            /\ y' = peaks[n + 1][2]
            /\ x' = peaks[n + 1][3]
       ELSE UNCHANGED <<y, x>>
    /\ high' = SubSeq(peaks, 1, n)
    /\ pc' = "done"
    /\ UNCHANGED <<imVars, threshold, peaks, peaks0, factor, n, notPeaks>>

NextHigh == HighStart \/ HighCount \/ HighReturn

SpecHigh == InitHigh /\ [][NextHigh]_vars

(***************************************************************************)
(* draw_line_fast                                                          *)
(* The endpoints are integers.  The slope de is the pair                   *)
(* <<numerator, denominator>> and the error e is counted in                *)
(* 1 / (2 * denominator), so that "e >= 0.5" is err >= denominator; for    *)
(* lines of fewer than 10 steps the floating-point e of the source takes   *)
(* the same side of 0.5 at every step.                                     *)
(***************************************************************************)
\* draw_line_fast: buffers of at most this many rows and columns, and
\* endpoints from one pixel before the buffer to this row and column
LineMaxSide == 4

\* the slope that stands for the slope of a line with dx = 0 (1.0e30 in the
\* source: larger than any buffer, which is all that the routines use of it)
Sentinel == 1000000

\* the test of steep on <<y0, x0, y1, x1>>
Steep(a) == Abs(a[3] - a[1]) > Abs(a[4] - a[2])

\* "y0, x0 = x0, y0" and "y1, x1 = x1, y1"
SwapAxes(a) == <<a[2], a[1], a[4], a[3]>>

\* SwapEnds with the test "x0 > x1" never true
KeepEnds(a) == a

\* "if x0 > x1": the ends change places
SwapEnds(a) == IF a[2] > a[4] THEN <<a[3], a[4], a[1], a[2]>> ELSE a

\* <<y0, x0, y1, x1>> when the loop is reached
Normalise(a) == SwapEnds(IF Steep(a) THEN SwapAxes(a) ELSE a)

\* de for the differences dy and dx
Slope(ddy, ddx) == IF ddx = 0 THEN <<Sentinel, 1>> ELSE <<ddy, ddx>>

\* the test before the write without its lower bounds
InBufferNoLower(st, px, py, h, w) ==
    IF st THEN px < h /\ py < w ELSE px < w /\ py < h

\* the test before the write
InBuffer(st, px, py, h, w) ==
    IF st THEN px >= 0 /\ px < h /\ py >= 0 /\ py < w
    ELSE px >= 0 /\ px < w /\ py >= 0 /\ py < h

\* the pixel <<row, column>> that the loop is at
LinePixel(st, px, py) == IF st THEN <<px, py>> ELSE <<py, px>>

\* YStep without the test "y0 < y1"
YStepUp(a) == 1

\* ystep for <<y0, x0, y1, x1>>
YStep(a) == IF a[1] < a[3] THEN 1 ELSE -1

\* "e += de" and the test "e >= 0.5": the new e, and whether y steps
ErrStep(e1, d) ==
    IF e1 + 2 * d[1] >= d[2] THEN <<e1 + 2 * d[1] - 2 * d[2], TRUE>>
    ELSE <<e1 + 2 * d[1], FALSE>>

\* the pixels that the loop is at from px on
RECURSIVE LineTrace(_, _, _, _, _, _, _)
LineTrace(st, px, py, last, e1, d, ys) ==
    IF px > last THEN {}
    ELSE {LinePixel(st, px, py)}
         \cup LineTrace(st, px + 1, IF ErrStep(e1, d)[2] THEN py + ys ELSE py,
                        last, ErrStep(e1, d)[1], d, ys)

\* the pixels that the loop of a call with the arguments a is at
LinePixels(a) ==
    LET b == Normalise(a)
    IN LineTrace(Steep(a), b[2], b[1], b[4], 0,
                 Slope(Abs(b[3] - b[1]), b[4] - b[2]), YStep(b))

\* the image of h rows, w columns and c channels that is zero
ZeroImage(h, w, c) == [q \in Pix(h, w) |-> [i \in 1 .. c |-> 0]]

\* draw_line_fast is called
InitLineFast ==
    /\ \E h \in 1 .. LineMaxSide : \E w \in 1 .. LineMaxSide : \E c \in {1, 2} :
          /\ ny = h
          /\ nx = w
          /\ nc = c
          /\ im = ZeroImage(h, w, c)
    /\ im0 = im
    /\ args \in (-1 .. LineMaxSide) \X (-1 .. LineMaxSide)
                \X (-1 .. LineMaxSide) \X (-1 .. LineMaxSide)
    /\ v \in {1, 2}
    /\ pc = "start"
    /\ y = None /\ x = None
    /\ ends = None /\ steep = None /\ de = None /\ err = None /\ ystep = None
    /\ intery = None /\ xpxl2 = None
    /\ centre = None /\ radius = None /\ dec = None /\ fill = None
    /\ seed = None /\ threshold = None /\ vc = None /\ edge = None /\ k = None
    /\ newedge = None
    /\ NoLabel
    /\ NoExtract
    /\ NoPeaks
    /\ NoHough

\* the statements before the loop
LineFastStart ==
    /\ pc = "start"
    /\ steep' = Steep(args)
    /\ ends' = Normalise(args)
    /\ de' = Slope(Abs(ends'[3] - ends'[1]), ends'[4] - ends'[2])
    /\ err' = 0
    /\ y' = ends'[1]
    /\ ystep' = YStep(ends')
    /\ x' = ends'[2]
    /\ pc' = IF ends'[2] <= ends'[4] THEN "loop" ELSE "done"
    /\ UNCHANGED <<imVars, v, args, intery, xpxl2, centre, radius, dec, fill, notDraw>>

\* one iteration of "for x in xrange (x0,x1+1)"
LineFastStep ==
    /\ pc = "loop"
    /\ LET at == LinePixel(steep, x, y)
           to == NumpyPixel(ny, nx, at[1], at[2])
           raised == InBuffer(steep, x, y, ny, nx) /\ to = <<-1, -1>>
       IN /\ im' = IF InBuffer(steep, x, y, ny, nx) /\ ~raised
                   THEN SetPix(im, to, v)
                   ELSE im
          /\ IF raised
             THEN /\ pc' = "IndexError"
                  /\ UNCHANGED <<x, y, err>>
             ELSE /\ err' = ErrStep(err, de)[1]
                  /\ y' = IF ErrStep(err, de)[2] THEN y + ystep ELSE y
                  /\ x' = IF x < ends[4] THEN x + 1 ELSE x
                  /\ pc' = IF x < ends[4] THEN "loop" ELSE "done"
    /\ UNCHANGED <<ny, nx, nc, im0, v, args, ends, steep, de, ystep, intery,
                   xpxl2, centre, radius, dec, fill, notDraw>>

NextLineFast == LineFastStart \/ LineFastStep

SpecLineFast == InitLineFast /\ [][NextLineFast]_vars

(***************************************************************************)
(* draw_circle_fast                                                        *)
(***************************************************************************)
\* draw_circle_fast: buffers of at most this many rows and columns, and
\* centres from one pixel before the buffer to this row and column
CircMaxSide == 9
\* draw_circle_fast: circles of at most this radius
CircMaxR == 4

\* Octants with the last of the eight pixels forgotten
OctantsSeven(c, py, px) ==
    << <<c[1] + py, c[2] + px>>, <<c[1] + py, c[2] - px>>,
       <<c[1] - py, c[2] + px>>, <<c[1] - py, c[2] - px>>,
       <<c[1] + px, c[2] + py>>, <<c[1] + px, c[2] - py>>,
       <<c[1] - px, c[2] + py>> >>

\* the eight pixels <<row, column>> that one step writes, in the order of the
\* source, for the centre c and the y and x of the routine
Octants(c, py, px) ==
    << <<c[1] + py, c[2] + px>>, <<c[1] + py, c[2] - px>>,
       <<c[1] - py, c[2] + px>>, <<c[1] - py, c[2] - px>>,
       <<c[1] + px, c[2] + py>>, <<c[1] + px, c[2] - py>>,
       <<c[1] - px, c[2] + py>>, <<c[1] - px, c[2] - py>> >>

\* the writes "im[..] = v" to the pixels ps, one after the other: the image
\* and whether all were made (a write that raises IndexError ends them)
RECURSIVE WriteAll(_, _, _, _, _)
WriteAll(img, h, w, ps, pval) ==
    IF ps = << >> THEN <<img, TRUE>>
    ELSE LET to == NumpyPixel(h, w, Head(ps)[1], Head(ps)[2])
         IN IF to = <<-1, -1>> THEN <<img, FALSE>>
            ELSE WriteAll(SetPix(img, to, pval), h, w, Tail(ps), pval)

\* DecStep with the test "p < 0" always true
DecStepFlat(d, py, px) == <<d + 4 * px + 6, py>>

\* the new p and y of a step
DecStep(d, py, px) ==
    IF d < 0 THEN <<d + 4 * px + 6, py>>
    ELSE <<d + 4 * (px - py) + 6, py - 1>>

\* the threshold of fill_outline when the caller gives none
DefaultThreshold == 100

\* draw_circle_fast has set x, y and p; fill is None
InitCircleFast ==
    /\ \E h \in 1 .. CircMaxSide : \E w \in 1 .. CircMaxSide :
          /\ ny = h
          /\ nx = w
          /\ im = ZeroImage(h, w, 1)
    /\ nc = 1
    /\ im0 = im
    /\ centre \in (-1 .. CircMaxSide) \X (-1 .. CircMaxSide)
    /\ radius \in 0 .. CircMaxR
    /\ v = 1
    /\ fill = << >>
    /\ args = <<centre[1], centre[2], radius, v>>
    /\ x = 0
    /\ y = radius
    /\ dec = 3 - 2 * radius
    /\ pc = "while"
    /\ ends = None /\ steep = None /\ de = None /\ err = None /\ ystep = None
    /\ intery = None /\ xpxl2 = None
    /\ seed = None /\ threshold = None /\ vc = None /\ edge = None /\ k = None
    /\ newedge = None
    /\ NoLabel
    /\ NoExtract
    /\ NoPeaks
    /\ NoHough

\* one iteration of "while x < y"
CircleFastStep ==
    /\ pc = "while"
    /\ x < y
    /\ LET wr == WriteAll(im, ny, nx, Octants(centre, y, x), v)
       IN /\ im' = wr[1]
          /\ IF wr[2]
             THEN /\ dec' = DecStep(dec, y, x)[1]
                  /\ y' = DecStep(dec, y, x)[2]
                  /\ x' = x + 1
                  /\ UNCHANGED pc
             ELSE /\ pc' = "IndexError"
                  /\ UNCHANGED <<dec, y, x>>
    /\ UNCHANGED <<ny, nx, nc, im0, v, args, ends, steep, de, err, ystep,
                   intery, xpxl2, centre, radius, fill, notDraw>>

\* the call fill_outline (im, sy, sx, v): the routine starts with its
\* arguments y and x and the default threshold
CallFill(sy, sx) ==
    /\ pc' = "start"
    /\ y' = sy
    /\ x' = sx
    /\ seed' = <<sy, sx>>
    /\ threshold' = DefaultThreshold
    /\ edge' = << >>
    /\ k' = 1
    /\ newedge' = << >>
    /\ UNCHANGED vc

\* the end of the loop, "if x == y", and the return or, when fill is not
\* None, the call of fill_outline
CircleFastEnd ==
    /\ pc = "while"
    /\ ~(x < y)
    /\ LET wr == IF x = y THEN WriteAll(im, ny, nx, Octants(centre, y, x), v)
                 ELSE <<im, TRUE>>
       IN /\ im' = wr[1]
          /\ IF wr[2] /\ fill # << >>
             THEN CallFill(centre[1], centre[2])
             ELSE /\ pc' = IF wr[2] THEN "done" ELSE "IndexError"
                  /\ UNCHANGED <<y, x, seed, threshold, vc, edge, k, newedge>>
    /\ UNCHANGED <<ny, nx, nc, im0, v, args, ends, steep, de, err, ystep,
                   intery, xpxl2, centre, radius, dec, fill,
                   labelVars, extractVars, peakVars, houghVars>>

NextCircleFast == CircleFastStep \/ CircleFastEnd

SpecCircleFast == InitCircleFast /\ [][NextCircleFast]_vars

\* draw_circle_fast with fill: buffers of at most this many rows and columns
CircFillMaxSide == 5
\* draw_circle_fast with fill: circles of at most this radius
CircFillMaxR == 2

\* draw_circle_fast has set x, y and p; fill is a value
InitCircleFill ==
    /\ \E h \in 1 .. CircFillMaxSide : \E w \in 1 .. CircFillMaxSide :
          /\ ny = h
          /\ nx = w
          /\ im = ZeroImage(h, w, 1)
    /\ nc = 1
    /\ im0 = im
    /\ centre \in (-1 .. CircFillMaxSide) \X (-1 .. CircFillMaxSide)
    /\ radius \in 0 .. CircFillMaxR
    /\ v \in {1, 255}
    /\ fill \in {<<128>>, <<255>>}
    /\ args = <<centre[1], centre[2], radius, v>>
    /\ x = 0
    /\ y = radius
    /\ dec = 3 - 2 * radius
    /\ pc = "while"
    /\ ends = None /\ steep = None /\ de = None /\ err = None /\ ystep = None
    /\ intery = None /\ xpxl2 = None
    /\ seed = None /\ threshold = None /\ vc = None /\ edge = None /\ k = None
    /\ newedge = None
    /\ NoLabel
    /\ NoExtract
    /\ NoPeaks
    /\ NoHough

\* draw_circle_fast and the fill_outline that it calls
NextCircleFill ==
    CircleFastStep \/ CircleFastEnd \/ FillStart \/ FillVisit \/ FillSwap

SpecCircleFill == InitCircleFill /\ [][NextCircleFill]_vars

(***************************************************************************)
(* draw_line                                                               *)
(* The endpoints are integers.  yend and intery are counted in             *)
(* 1 / (denominator of de).  A pixel of the buffer is the list of the      *)
(* opacities with which values were blended into it, an opacity being      *)
(* <<"lin", num, den>> for num / den and <<"sqrt", num, den>> for          *)
(* math.sqrt (num / den).                                                  *)
(***************************************************************************)
\* int (num / den), den > 0: the fraction is cut off towards zero
TruncDiv(num, den) == IF num >= 0 THEN num \div den ELSE -((-num) \div den)

\* int (i + 0.5) for an integer i
IntPlusHalf(i) == IF i >= 0 THEN i ELSE i + 1

\* blend_pixel (im, py, px, v, op)
BlendPixel(img, h, w, py, px, op) ==
    IF py >= 0 /\ py < h /\ px >= 0 /\ px < w
    THEN [img EXCEPT ![<<py, px>>] = <<Append(@[1], op)>>]
    ELSE img

\* the two calls of blend_pixel for an end-point: yend = num / den at xpxl
BlendEnd(img, h, w, st, xpxl, num, den) ==
    LET ypxl == TruncDiv(num, den)
        frac == num - den * ypxl
    IN IF st
       THEN BlendPixel(BlendPixel(img, h, w, xpxl, ypxl, <<"lin", den - frac, den>>),
                       h, w, xpxl, ypxl + 1, <<"lin", frac, den>>)
       ELSE BlendPixel(BlendPixel(img, h, w, ypxl, xpxl, <<"lin", den - frac, den>>),
                       h, w, ypxl + 1, xpxl, <<"lin", frac, den>>)

\* the buffer of h rows and w columns into which nothing was blended
BlankImage(h, w) == [q \in Pix(h, w) |-> << << >> >>]

\* draw_line is called
InitLine ==
    /\ \E h \in 1 .. LineMaxSide : \E w \in 1 .. LineMaxSide :
          /\ ny = h
          /\ nx = w
          /\ im = BlankImage(h, w)
    /\ nc = 1
    /\ im0 = im
    /\ args \in (-1 .. LineMaxSide) \X (-1 .. LineMaxSide)
                \X (-1 .. LineMaxSide) \X (-1 .. LineMaxSide)
    /\ v = 1
    /\ pc = "start"
    /\ y = None /\ x = None
    /\ ends = None /\ steep = None /\ de = None /\ err = None /\ ystep = None
    /\ intery = None /\ xpxl2 = None
    /\ centre = None /\ radius = None /\ dec = None /\ fill = None
    /\ seed = None /\ threshold = None /\ vc = None /\ edge = None /\ k = None
    /\ newedge = None
    /\ NoLabel
    /\ NoExtract
    /\ NoPeaks
    /\ NoHough

\* the statements before the main loop: the two end-points are drawn
LineStart ==
    /\ pc = "start"
    /\ steep' = Steep(args)
    /\ ends' = Normalise(args)
    /\ de' = Slope(ends'[3] - ends'[1], ends'[4] - ends'[2])
    /\ LET xend1 == IntPlusHalf(ends'[2])
           yend1 == ends'[1] * de'[2] + de'[1] * (xend1 - ends'[2])
           xend2 == IntPlusHalf(ends'[4])
           yend2 == ends'[3] * de'[2] + de'[1] * (xend2 - ends'[4])
       IN /\ im' = BlendEnd(BlendEnd(im, ny, nx, steep', xend1, yend1, de'[2]),
                            ny, nx, steep', xend2, yend2, de'[2])
          /\ intery' = yend1 + de'[1]
          /\ xpxl2' = xend2
          /\ x' = xend1 + 1
          /\ pc' = IF xend1 + 1 < xend2 THEN "loop" ELSE "done"
    /\ UNCHANGED <<ny, nx, nc, im0, y, v, args, err, ystep, centre, radius, dec,
                   fill, notDraw>>

\* one iteration of the main loop; math.sqrt of a negative number raises
\* ValueError
LineStep ==
    /\ pc = "loop"
    /\ LET ipart == TruncDiv(intery, de[2])
           frac == intery - de[2] * ipart
           one == IF steep
                  THEN BlendPixel(im, ny, nx, x, ipart,
                                  <<"sqrt", de[2] - frac, de[2]>>)
                  ELSE BlendPixel(im, ny, nx, ipart, x,
                                  <<"sqrt", de[2] - frac, de[2]>>)
           two == IF steep
                  THEN BlendPixel(one, ny, nx, x, ipart + 1, <<"sqrt", frac, de[2]>>)
                  ELSE BlendPixel(one, ny, nx, ipart + 1, x, <<"sqrt", frac, de[2]>>)
       IN IF frac < 0
          THEN /\ im' = one
               /\ pc' = "ValueError"
               /\ UNCHANGED <<x, intery>>
          ELSE /\ im' = two
               /\ intery' = intery + de[1]
               /\ x' = IF x + 1 < xpxl2 THEN x + 1 ELSE x
               /\ pc' = IF x + 1 < xpxl2 THEN "loop" ELSE "done"
    /\ UNCHANGED <<ny, nx, nc, im0, y, v, args, ends, steep, de, err, ystep,
                   xpxl2, centre, radius, dec, fill, notDraw>>

NextLine == LineStart \/ LineStep

SpecLine == InitLine /\ [][NextLine]_vars

(***************************************************************************)
(* label_regions_slow on a square buffer with two square blocks            *)
(***************************************************************************)
\* the side of the buffer
BufSide == 10
\* the side of a block
BlockSide == 2

\* the pixels of the block whose upper left corner is p
BlockAt(p) ==
    {<<p[1] + a, p[2] + b>> : a \in 0 .. BlockSide - 1, b \in 0 .. BlockSide - 1}

\* some pixel of one set shares an edge with some pixel of the other
ShareEdge(A, B) ==
    \E a \in A : \E b \in B : Abs(a[1] - b[1]) + Abs(a[2] - b[2]) = 1

\* the buffer with blocks of value 1 at p and q on a background of 0
TwoBlocks(p, q) ==
    [s \in Pix(BufSide, BufSide) |->
        IF s \in BlockAt(p) \cup BlockAt(q) THEN <<1>> ELSE <<0>>]

\* the state of label_regions_slow (im, con8 = False) when it has made lab,
\* lastlabel and equiv: the blocks do not overlap and share no edge
InitBlocks ==
    /\ \E p \in Pix(BufSide - BlockSide + 1, BufSide - BlockSide + 1) :
       \E q \in Pix(BufSide - BlockSide + 1, BufSide - BlockSide + 1) :
          /\ p[1] < q[1] \/ (p[1] = q[1] /\ p[2] < q[2])
          /\ BlockAt(p) \cap BlockAt(q) = {}
          /\ ~ShareEdge(BlockAt(p), BlockAt(q))
          /\ im = TwoBlocks(p, q)
    /\ ny = BufSide
    /\ nx = BufSide
    /\ lab = [p \in Pix(BufSide, BufSide) |-> 0]
    /\ pc = "start"
    /\ y = None
    /\ x = None
    /\ nc = 1
    /\ con8 = FALSE
    /\ lastlabel = 0
    /\ equiv = <<0>>
    /\ count = None
    /\ im0 = im
    /\ NoFill
    /\ NoExtract
    /\ NoPeaks
    /\ NoDraw
    /\ NoHough

SpecBlocks == InitBlocks /\ [][NextLabel]_vars

(***************************************************************************)
(* hough_line, called with na = 1 and the default origin                   *)
(* There is one angular bin, a = 0, with ang = 0, cos = 1 and sin = 0, so  *)
(* that r = (x - xc) + ny without rounding.  yc, xc and r are counted in   *)
(* halves: yc = ny / 2 and xc = nx / 2 are true divisions.  rinc is        *)
(* computed and never used.                                                *)
(***************************************************************************)
\* images of at most this many pixels
HoughMaxArea == 6
\* accumulators of at most this many radial values
HoughMaxBins == 4

\* the threshold of hough_line when the caller gives none
HoughThreshold == 10

\* r of the source for the bin a = 0, in halves
Radial(px, cx, h) == (2 * px - cx) + 2 * h

\* the position after the pixel (py, px): <<pc, y, x>>
NextPixel(py, px, h, w) ==
    IF px + 1 < w THEN <<"pixel", py, px + 1>>
    ELSE IF py + 1 < h THEN <<"pixel", py + 1, 0>>
    ELSE <<"peaks", py, px>>

\* hough_line has made acc and is about to scan the image
InitHough ==
    /\ \E s \in Shapes(HoughMaxArea) :
          /\ ny = s[1]
          /\ nx = s[2]
          /\ im \in MonoImages(s[1], s[2], {0, 1})
    /\ nc = 1
    /\ im0 = im
    /\ yc = ny
    /\ xc = nx
    /\ \E r \in 1 .. HoughMaxBins :
          /\ bins = <<1, r>>
          /\ acc = [q \in Pix(1, r) |-> 0]
    /\ threshold = HoughThreshold
    /\ y = 0
    /\ x = 0
    /\ v = None
    /\ abin = None
    /\ rad = << >>
    /\ peaks = None
    /\ pc = "pixel"
    /\ con8 = None /\ lab = None /\ equiv = None /\ lastlabel = None
    /\ count = None
    /\ seed = None /\ vc = None /\ edge = None /\ k = None /\ newedge = None
    /\ ry = None /\ rx = None /\ step = None /\ wrap = None /\ val = None
    /\ interpolator = None /\ region = None /\ shared = None
    /\ peaks0 = None /\ factor = None /\ n = None /\ high = None
    /\ NoDraw

\* "v = im[y,x,0]" and the test "if v > 0"
HoughPixel ==
    /\ pc = "pixel"
    /\ v' = Ch0(im, <<y, x>>)
    /\ IF v' > 0
       THEN /\ pc' = "angle"
            /\ abin' = 0
            /\ UNCHANGED <<y, x>>
       ELSE /\ pc' = NextPixel(y, x, ny, nx)[1]
            /\ y' = NextPixel(y, x, ny, nx)[2]
            /\ x' = NextPixel(y, x, ny, nx)[3]
            /\ UNCHANGED abin
    /\ UNCHANGED <<imVars, yc, xc, threshold, peaks, acc, bins, rad, notHough>>

\* one iteration of "for a in xrange (0, na)".  r is a float, and acc[a,r,0]
\* with a float index is taken at int (r) by an older numpy and refused with
\* IndexError by a newer one
HoughAngle ==
    /\ pc = "angle"
    /\ rad' = <<Radial(x, xc, ny)>>
    /\ \/ /\ acc' = IF rad'[1] >= 0 /\ rad'[1] < 2 * bins[2]
                    THEN [acc EXCEPT ![<<abin, rad'[1] \div 2>>] = @ + 1]
                    ELSE acc
          /\ IF abin + 1 < bins[1]
             THEN /\ abin' = abin + 1
                  /\ UNCHANGED <<pc, y, x>>
             ELSE /\ pc' = NextPixel(y, x, ny, nx)[1]
                  /\ y' = NextPixel(y, x, ny, nx)[2]
                  /\ x' = NextPixel(y, x, ny, nx)[3]
                  /\ UNCHANGED abin
       \/ /\ rad'[1] >= 0 /\ rad'[1] < 2 * bins[2]
          /\ pc' = "IndexError"
          /\ UNCHANGED <<acc, abin, y, x>>
    /\ UNCHANGED <<imVars, v, yc, xc, threshold, peaks, bins, notHough>>

\* "peaks = find_peaks (acc, threshold=threshold)" and the return: acc has
\* one row, so that no pixel of it is inside the border and the list is empty
HoughPeaks ==
    /\ pc = "peaks"
    /\ peaks' = << >>
    /\ pc' = "done"
    /\ UNCHANGED <<imVars, y, x, v, yc, xc, threshold, acc, bins, abin, rad,
                   notHough>>

NextHough == HoughPixel \/ HoughAngle \/ HoughPeaks

SpecHough == InitHough /\ [][NextHough]_vars

(***************************************************************************)
(* draw_circle (Xiaolin Wu), for the radii whose d = sqrt (r**2 - y**2) is *)
(* a whole number at every step, so that opac and trans are whole too and  *)
(* the blended values are exact.  dec holds t, the opac of the step before.*)
(***************************************************************************)
\* buffers of at most this many rows and columns
WuMaxSide == 4

\* the radii r with r**2 - y**2 a square for every y of the loop
WholeRadii == {0, 1}

\* math.sqrt (m) for a square m
WholeRoot(m) == CHOOSE d \in 0 .. m : d * d = m

\* blend_pixel (im, py, px, pval, op), the image having one channel
BlendValue(img, h, w, py, px, pval, op) ==
    IF py >= 0 /\ py < h /\ px >= 0 /\ px < w
    THEN [img EXCEPT ![<<py, px>>] = <<pval * op + (1 - op) * @[1]>>]
    ELSE img

\* the writes of one step of the loop, in the order of the source:
\* <<"set", row, column, 1>> for im[row, column] = v and
\* <<"blend", row, column, op>> for blend_pixel (im, row, column, v, op)
WuWrites(c, py, px, op, tr) ==
    << <<"set", c[1] + py, c[2] + px, 1>>,
       <<"blend", py + c[1], px + c[2] - 1, tr>>,
       <<"blend", py + c[1], px + c[2] + 1, op>>,
       <<"set", c[1] + px, c[2] + py, 1>>,
       <<"blend", px + c[1] - 1, py + c[2], tr>>,
       <<"blend", px + c[1] + 1, py + c[2], op>>,
       <<"set", c[1] + py, c[2] - px, 1>>,
       <<"blend", py + c[1], c[2] - px + 1, tr>>,
       <<"blend", py + c[1], c[2] - px - 1, op>>,
       <<"set", c[1] + px, c[2] - py, 1>>,
       <<"blend", px + c[1] - 1, c[2] - py, tr>>,
       <<"blend", px + c[1] + 1, c[2] - py, op>>,
       <<"set", c[1] - py, c[2] + px, 1>>,
       <<"blend", c[1] - py, px + c[2] - 1, tr>>,
       <<"blend", c[1] - py, px + c[2] + 1, op>>,
       <<"set", c[1] - px, c[2] + py, 1>>,
       <<"blend", c[1] - px - 1, py + c[2], op>>,
       <<"blend", c[1] - px + 1, py + c[2], tr>>,
       <<"set", c[1] - px, c[2] - py, 1>>,
       <<"blend", c[1] - px - 1, c[2] - py, op>>,
       <<"blend", c[1] - px + 1, c[2] - py, tr>>,
       <<"set", c[1] - py, c[2] - px, 1>>,
       <<"blend", c[1] - py, c[2] - px - 1, op>>,
       <<"blend", c[1] - py, c[2] - px + 1, tr>> >>

\* the writes ws made one after the other: the image and whether all were
\* made (an "im[..] = v" that raises IndexError ends them)
RECURSIVE WuApply(_, _, _, _, _)
WuApply(img, h, w, ws, pval) ==
    IF ws = << >> THEN <<img, TRUE>>
    ELSE IF Head(ws)[1] = "blend"
         THEN WuApply(BlendValue(img, h, w, Head(ws)[2], Head(ws)[3], pval,
                                 Head(ws)[4]),
                      h, w, Tail(ws), pval)
         ELSE LET to == NumpyPixel(h, w, Head(ws)[2], Head(ws)[3])
              IN IF to = <<-1, -1>> THEN <<img, FALSE>>
                 ELSE WuApply(SetPix(img, to, pval), h, w, Tail(ws), pval)

\* draw_circle has set x, y and t
InitCircle ==
    /\ \E h \in 1 .. WuMaxSide : \E w \in 1 .. WuMaxSide :
          /\ ny = h
          /\ nx = w
          /\ im = ZeroImage(h, w, 1)
    /\ nc = 1
    /\ im0 = im
    /\ centre \in (-1 .. WuMaxSide) \X (-1 .. WuMaxSide)
    /\ radius \in WholeRadii
    /\ v = 255
    /\ fill \in {<< >>, <<128>>}
    /\ args = <<centre[1], centre[2], radius, v>>
    /\ x = radius
    /\ y = -1
    /\ dec = 0
    /\ pc = "wu"
    /\ ends = None /\ steep = None /\ de = None /\ err = None /\ ystep = None
    /\ intery = None /\ xpxl2 = None
    /\ seed = None /\ threshold = None /\ vc = None /\ edge = None /\ k = None
    /\ newedge = None
    /\ NoLabel
    /\ NoExtract
    /\ NoPeaks
    /\ NoHough

\* one iteration of "while x > y"
CircleStep ==
    /\ pc = "wu"
    /\ x > y
    /\ LET y1 == y + 1
           d == WholeRoot(radius * radius - y1 * y1)
           opac == IntPlusHalf(d) - d
           x1 == IF opac < dec THEN x - 1 ELSE x
           trans == 1 - opac
           wr == WuApply(im, ny, nx, WuWrites(centre, y1, x1, opac, trans), v)
       IN /\ im' = wr[1]
          /\ y' = y1
          /\ x' = x1
          /\ IF wr[2]
             THEN /\ dec' = opac
                  /\ UNCHANGED pc
             ELSE /\ pc' = "IndexError"
                  /\ UNCHANGED dec
    /\ UNCHANGED <<ny, nx, nc, im0, v, args, ends, steep, de, err, ystep,
                   intery, xpxl2, centre, radius, fill, notDraw>>

\* the end of the loop and the return or, when fill is not None, the call
\* "fill_outline (im, yc, yc, v)"
CircleEnd ==
    /\ pc = "wu"
    /\ ~(x > y)
    /\ IF fill # << >>
       THEN CallFill(centre[1], centre[1])
       ELSE /\ pc' = "done"
            /\ UNCHANGED <<y, x, seed, threshold, vc, edge, k, newedge>>
    /\ UNCHANGED <<imVars, v, args, ends, steep, de, err, ystep,
                   intery, xpxl2, centre, radius, dec, fill,
                   labelVars, extractVars, peakVars, houghVars>>

\* draw_circle and the fill_outline that it calls
NextCircle == CircleStep \/ CircleEnd \/ FillStart \/ FillVisit \/ FillSwap

SpecCircle == InitCircle /\ [][NextCircle]_vars

(***************************************************************************)
(* Connected components of the input, for the statements about             *)
(* label_regions_slow.                                                     *)
(***************************************************************************)
\* p and q are neighbours under the connectivity rule
Adjacent(c8, p, q) ==
    LET dy == Abs(p[1] - q[1])
        dx == Abs(p[2] - q[2])
    IN IF c8 THEN dy <= 1 /\ dx <= 1 /\ dy + dx > 0 ELSE dy + dx = 1

\* the pixels joined to a pixel of front by a path of adjacent pixels of the
\* same value; seen are the pixels found so far
RECURSIVE Grow(_, _)
Grow(seen, front) ==
    IF front = {} THEN seen
    ELSE LET more == {q \in Pix(ny, nx) \ seen :
                         \E p \in front : /\ Adjacent(con8, p, q)
                                          /\ Ch0(im, p) = Ch0(im, q)}
         IN Grow(seen \cup more, more)

Component(p) == Grow({p}, {p})

\* C1: when label_regions_slow has returned, any two pixels of one connected
\* component (same value, joined by a path of same-valued pixels adjacent
\* under the active rule) have the same label.
C1_SameComponentSameLabel ==
    pc = "done" =>
        \A p \in Pix(ny, nx) : \A q \in Component(p) : lab[p] = lab[q]

\* C2: when label_regions_slow has returned, any two pixels with the same
\* label have the same value in channel 0 and lie in one connected component
\* under the active rule.
C2_SameLabelSameComponent ==
    pc = "done" =>
        \A p \in Pix(ny, nx) :
            LET comp == Component(p)
            IN \A q \in Pix(ny, nx) :
                  lab[q] = lab[p] => Ch0(im, q) = Ch0(im, p) /\ q \in comp

\* C2, its case: a returned labelling in which two provisional labels were
\* found equivalent, so that pixels labelled apart in the raster pass share a
\* final label, next to a region labelled differently.
C2_Witness ==
    /\ pc = "done"
    /\ \E i \in 0 .. lastlabel : Eq(equiv, i) # i
    /\ \E p \in Pix(ny, nx) : \E q \in Pix(ny, nx) :
          /\ p # q
          /\ lab[p] = lab[q]
          /\ ~Adjacent(TRUE, p, q)
    /\ count >= 2

\* C3: the labels in the returned buffer are exactly 0 .. N-1 for the
\* returned count N.
C3_CountIsNumberOfLabels ==
    pc = "done" => {lab[p] : p \in Pix(ny, nx)} = 0 .. count - 1

(***************************************************************************)
(* Statements about fill_outline.                                          *)
(***************************************************************************)
\* the pixels of img whose channel 0 is not zero
NonZero(img) == {p \in DOMAIN img : Ch0(img, p) # 0}

\* the smallest rectangle of pixels that holds the pixels of S
Box(S) ==
    {p \in Pix(ny, nx) : /\ \E q \in S : q[1] <= p[1]
                         /\ \E q \in S : q[1] >= p[1]
                         /\ \E q \in S : q[2] <= p[2]
                         /\ \E q \in S : q[2] >= p[2]}

\* img is a uniform rectangle that holds the pixel sd, on a background of 0
IsRectangle(img, sd) ==
    /\ sd \in NonZero(img)
    /\ NonZero(img) = Box(NonZero(img))
    /\ \A p \in NonZero(img) : Ch0(img, p) = Ch0(img, sd)

\* C4: with threshold 0 and a seed inside a uniform rectangle of value V on a
\* background of 0 (single channel, fill value other than V), fill_outline
\* sets every pixel of the rectangle to the fill value and leaves the
\* background as it was.
C4_FillsRectangle ==
    ( /\ pc = "done"
      /\ nc = 1
      /\ threshold = 0
      /\ seed \in Pix(ny, nx)
      /\ IsRectangle(im0, seed)
      /\ Ch0(im0, seed) # v )
    => \A p \in Pix(ny, nx) :
          Ch0(im, p) = IF p \in NonZero(im0) THEN v ELSE 0

\* C5: fill_outline terminates: every call reaches its return (a run that the
\* model stops following at FillMaxEdge pixels in newedge is not counted).
C5_FillTerminates == <>(pc = "done" \/ pc = "cut")

(***************************************************************************)
(* Statements about extract.                                               *)
(***************************************************************************)
\* the window asked for has an integer top-left corner and lies in the source
WindowInside ==
    /\ Corner(yc, ry) >= 0 /\ Corner(yc, ry) % 2 = 0
    /\ Corner(xc, rx) >= 0 /\ Corner(xc, rx) % 2 = 0
    /\ Corner(yc, ry) \div 2 + ry <= ny
    /\ Corner(xc, rx) \div 2 + rx <= nx

\* C6: with angle 0, step 1, no wrapping and an integer-aligned window that
\* lies fully inside the source (a window as tall or as wide as the source
\* included), pixel (i, j) of the region returned is pixel (y0+i, x0+j) of the
\* source, for every interpolation mode.
C6_AlignedWindowIsCopy ==
    (pc = "done" /\ step = 1 /\ ~wrap /\ WindowInside)
    => /\ region.h = ry
       /\ region.w = rx
       /\ \A p \in Pix(ry, rx) :
             region.at[p] = im0[<<Corner(yc, ry) \div 2 + p[1],
                                  Corner(xc, rx) \div 2 + p[2]>>]

\* C7: the image returned by extract has ry rows and rx columns.
C7_RegionHasSizeAsked ==
    pc = "done" => region.h = ry /\ region.w = rx

\* C8: a write to a pixel of the image returned by extract leaves the source
\* as it was.
C8_RegionIsIndependent ==
    pc = "written" => im = im0

(***************************************************************************)
(* Statements about find_peaks and high_peaks.                             *)
(***************************************************************************)
\* the pixels strictly inside the border of one pixel
Interior == {p \in Pix(ny, nx) : /\ p[1] >= 1 /\ p[1] <= ny - 2
                                 /\ p[2] >= 1 /\ p[2] <= nx - 2}

\* the eight neighbours of an interior pixel
Around8(p) == {q \in Pix(ny, nx) : Adjacent(TRUE, p, q)}

\* the elements of a list
Elements(s) == {s[i] : i \in DOMAIN s}

\* C9: find_peaks reports <<value, y, x>> for exactly the pixels strictly
\* inside the border whose channel-0 value is strictly greater than that of
\* all 8 neighbours and than the threshold, each once; the 10 x 10 zero image
\* with 100 at (5, 5) gives the single peak (100, 5, 5) for threshold 50 and
\* none for threshold 150.
C9_PeaksAreStrictMaxima ==
    pc = "done" =>
        /\ Elements(peaks) =
              {<<Ch0(im, p), p[1], p[2]>> :
                  p \in {q \in Interior :
                            /\ \A r \in Around8(q) : Ch0(im, q) > Ch0(im, r)
                            /\ Ch0(im, q) > threshold}}
        /\ \A i \in DOMAIN peaks : \A j \in DOMAIN peaks :
              peaks[i] = peaks[j] => i = j
        /\ (im = OnePeakImage /\ threshold = 50) => peaks = << <<100, 5, 5>> >>
        /\ (im = OnePeakImage /\ threshold = 150) => peaks = << >>

\* C9, its case: the 10 x 10 image with threshold 50 has been searched.
C9_Witness ==
    /\ pc = "done"
    /\ im = OnePeakImage
    /\ threshold = 50
    /\ peaks = << <<100, 5, 5>> >>

\* C10: for a non-empty list sorted into descending order of value,
\* high_peaks returns the longest prefix of the list whose values are all
\* >= factor * (the value of the first peak), and the list is as it was.
C10_HighPeaksIsLongestPrefix ==
    (pc = "done" /\ peaks0 # << >>) =>
        /\ Len(high) <= Len(peaks0)
        /\ high = SubSeq(peaks0, 1, Len(high))
        /\ \A i \in 1 .. Len(high) : 2 * high[i][1] >= factor * peaks0[1][1]
        /\ Len(high) < Len(peaks0) =>
              2 * peaks0[Len(high) + 1][1] < factor * peaks0[1][1]
        /\ peaks = peaks0

\* C10, its case: a list of which high_peaks keeps a proper, non-empty prefix.
C10_Witness ==
    /\ pc = "done"
    /\ Len(high) >= 1
    /\ Len(high) < Len(peaks0)

(***************************************************************************)
(* Statements about draw_line_fast.                                        *)
(***************************************************************************)
\* the pixels of the buffer that do not hold what they held at the call
Written == {q \in Pix(ny, nx) : im[q] # im0[q]}

\* the nearest integer to num / den, a half going up (num >= 0, den > 0)
RoundHalfUp(num, den) == (2 * num + den) \div (2 * den)

\* the line of Bresenham between the ends of a = <<y0, x0, y1, x1>>: one
\* pixel for each position along the axis of the larger difference, from the
\* end with the smaller position on it, the other coordinate being the
\* nearest to the straight line
IdealPath(a) ==
    LET rows == Abs(a[3] - a[1]) > Abs(a[4] - a[2])
        first == IF rows THEN <<a[1], a[2]>> ELSE <<a[2], a[1]>>
        second == IF rows THEN <<a[3], a[4]>> ELSE <<a[4], a[3]>>
        from == IF first[1] <= second[1] THEN first ELSE second
        upto == IF first[1] <= second[1] THEN second ELSE first
        len == upto[1] - from[1]
        sgn == IF upto[2] > from[2] THEN 1 ELSE -1
        off(t) == IF len = 0 THEN 0
                  ELSE sgn * RoundHalfUp(t * Abs(upto[2] - from[2]), len)
    IN {IF rows THEN <<from[1] + t, from[2] + off(t)>>
                ELSE <<from[2] + off(t), from[1] + t>> : t \in 0 .. len}

\* C11: for two endpoints inside the buffer, when draw_line_fast has
\* returned both endpoint pixels hold v in every channel.
C11_EndpointsHoldValue ==
    ( /\ pc = "done"
      /\ <<args[1], args[2]>> \in Pix(ny, nx)
      /\ <<args[3], args[4]>> \in Pix(ny, nx) )
    => \A c \in 1 .. nc : /\ im[<<args[1], args[2]>>][c] = v
                          /\ im[<<args[3], args[4]>>][c] = v

\* C11, its case: a steep line between two pixels of a two-channel buffer,
\* neither vertical nor diagonal, whose ends the routine has exchanged.
C11_Witness ==
    /\ pc = "done"
    /\ nc = 2
    /\ <<args[1], args[2]>> \in Pix(ny, nx)
    /\ <<args[3], args[4]>> \in Pix(ny, nx)
    /\ steep
    /\ args[2] # args[4]
    /\ Abs(args[3] - args[1]) > Abs(args[4] - args[2])
    /\ ends[2] = args[3]
    /\ ends[2] # args[1]

\* C12: the pixels that draw_line_fast has written are those that the call
\* with the endpoints exchanged writes on an equal buffer.
C12_ReversalSymmetric ==
    pc = "done" =>
        Written = LinePixels(<<args[3], args[4], args[1], args[2]>>)
                     \cap Pix(ny, nx)

\* C12, its case: a line of three pixels or more in the buffer, neither
\* horizontal, vertical nor diagonal, drawn from its right-hand end.
C12_Witness ==
    /\ pc = "done"
    /\ ~steep
    /\ args[2] > args[4]
    /\ args[1] # args[3]
    /\ Abs(args[3] - args[1]) < Abs(args[4] - args[2])
    /\ Cardinality(Written) >= 3

\* C17: draw_line_fast raises no error, and when it has returned the pixels
\* of the buffer on the line of Bresenham between the endpoints hold v in
\* every channel and every other pixel is as it was, wherever the endpoints
\* lie.
C17_WritesClippedPath ==
    /\ pc # "IndexError"
    /\ pc = "done" =>
          \A q \in Pix(ny, nx) :
              im[q] = IF q \in IdealPath(args) THEN [c \in 1 .. nc |-> v]
                      ELSE im0[q]

\* C17, its case: a line from above the buffer to the right of it that
\* crosses the buffer.
C17_Witness ==
    /\ pc = "done"
    /\ args[1] < 0
    /\ args[4] >= nx
    /\ Cardinality(Written) >= 2
    /\ \E q \in IdealPath(args) : q \notin Pix(ny, nx)

\* C17, a second case: coincident endpoints outside the buffer, for which
\* the slope is the sentinel.
C17_WitnessCoincident ==
    /\ pc = "done"
    /\ args[1] = args[3]
    /\ args[2] = args[4]
    /\ de = <<Sentinel, 1>>
    /\ <<args[1], args[2]>> \notin Pix(ny, nx)

(***************************************************************************)
(* Statements about draw_circle_fast.                                      *)
(***************************************************************************)
\* the circle lies wholly inside the buffer
CircleInside ==
    /\ centre[1] - radius >= 0 /\ centre[1] + radius <= ny - 1
    /\ centre[2] - radius >= 0 /\ centre[2] + radius <= nx - 1

\* the square of the distance of the pixel q from the centre
Dist2(q) ==
    (q[1] - centre[1]) * (q[1] - centre[1])
    + (q[2] - centre[2]) * (q[2] - centre[2])

\* C13 as it is stated: for a circle wholly inside the buffer every pixel
\* written has (r-1)^2 <= dy^2 + dx^2 <= (r+1)^2.
C13_AsStated ==
    CircleInside =>
        \A q \in Written : /\ (radius - 1) * (radius - 1) <= Dist2(q)
                           /\ Dist2(q) <= (radius + 1) * (radius + 1)

\* C13: for a circle wholly inside the buffer every pixel written lies at a
\* distance d from the centre with |d - r| <= 1: d <= r + 1, and d >= r - 1
\* when r >= 1.
C13_WithinOneOfRadius ==
    CircleInside =>
        \A q \in Written :
            /\ Dist2(q) <= (radius + 1) * (radius + 1)
            /\ radius >= 1 => (radius - 1) * (radius - 1) <= Dist2(q)

\* C13, its case: a circle of radius 3 or more wholly inside the buffer has
\* been drawn, with a pixel off the axes and the diagonals.
C13_Witness ==
    /\ pc = "done"
    /\ CircleInside
    /\ radius >= 3
    /\ \E q \in Written : /\ q[1] # centre[1]
                          /\ q[2] # centre[2]
                          /\ Abs(q[1] - centre[1]) # Abs(q[2] - centre[2])

\* the images of the pixel q under the symmetries of the eight octants
Mirrors(q) ==
    LET ddy == q[1] - centre[1]
        ddx == q[2] - centre[2]
    IN {<<centre[1] + s[1] * ddy, centre[2] + s[2] * ddx>> : s \in {-1, 1} \X {-1, 1}}
       \cup {<<centre[1] + s[1] * ddx, centre[2] + s[2] * ddy>> : s \in {-1, 1} \X {-1, 1}}

\* C14: for a circle wholly inside the buffer, when draw_circle_fast has
\* returned the pixels written are symmetric across the eight octants.
C14_EightfoldSymmetric ==
    (pc = "done" /\ CircleInside) =>
        \A q \in Written : Mirrors(q) \subseteq Written

\* C14, its case: a circle of radius 2 or more, wholly inside a buffer that
\* is not square, off the centre of the buffer.
C14_Witness ==
    /\ pc = "done"
    /\ CircleInside
    /\ radius >= 2
    /\ ny # nx
    /\ centre[1] # centre[2]
    /\ Cardinality(Written) >= 12

\* the pixels of the circle of the call, wherever the buffer is: those that
\* the steps of the routine name
RECURSIVE CirclePixels(_, _, _)
CirclePixels(d, py, px) ==
    IF px > py THEN {}
    ELSE {Octants(centre, py, px)[i] : i \in DOMAIN Octants(centre, py, px)}
         \cup (IF px = py THEN {}
               ELSE CirclePixels(DecStep(d, py, px)[1], DecStep(d, py, px)[2],
                                 px + 1))

\* C15: for a circle that lies partly or wholly outside the buffer,
\* draw_circle_fast raises no error, and when it has returned the pixels
\* written are the pixels of the circle that lie in the buffer.
C15_OutsideIsSkipped ==
    ~CircleInside =>
        /\ pc # "IndexError"
        /\ pc = "done" =>
              Written = CirclePixels(3 - 2 * radius, radius, 0) \cap Pix(ny, nx)

(***************************************************************************)
(* Statements about draw_line.                                             *)
(***************************************************************************)
\* C16: draw_line raises no error, wherever the endpoints lie (the buffer
\* has no pixels but those in bounds, so that nothing else can be modified).
C16_CompletesWithoutError == pc # "ValueError"

(***************************************************************************)
(* A statement about label_regions_slow on the smallest images.            *)
(***************************************************************************)
\* C18: label_regions_slow raises no error; on an image of one pixel it
\* returns the label 0 for the pixel and the count 1, and on an image without
\* pixels it returns the count 0.
C18_MinimalImages ==
    /\ pc # "IndexError"
    /\ (pc = "done" /\ ny = 1 /\ nx = 1) => lab[<<0, 0>>] = 0 /\ count = 1
    /\ (pc = "done" /\ (ny = 0 \/ nx = 0)) => count = 0

(***************************************************************************)
(* Statements about the interpolator and the wrapping of extract.          *)
(***************************************************************************)
\* the image that the call returns when its interpolator is name
RegionFor(name) ==
    IF FastPath(step, ny, nx, ry, rx, Corner(yc, ry), Corner(xc, rx))
    THEN SliceOf(im0, ny, nx, Corner(yc, ry) \div 2, ry, Corner(xc, rx) \div 2, rx)
    ELSE General(im0, ny, nx, ry, rx, yc, xc, step, wrap, val, Interp(name))

\* C19: a call of extract with an interpolator other than 'gradient',
\* 'bilinear' and 'nearest' returns the image that the same call with
\* 'nearest' returns.
C19_UnknownIsNearest ==
    (pc = "done" /\ interpolator \notin {"gradient", "bilinear", "nearest"})
    => region = RegionFor("nearest")

\* C19, its case: a call with the interpolator 'cubic' that samples the
\* source between its pixels, where 'bilinear' and 'gradient' give other
\* images than 'nearest'.
C19_Witness ==
    /\ pc = "done"
    /\ interpolator = "cubic"
    /\ ~FastPath(step, ny, nx, ry, rx, Corner(yc, ry), Corner(xc, rx))
    /\ region # RegionFor("bilinear")
    /\ region # RegionFor("gradient")
    /\ \E q \in Pix(ry, rx) : region.at[q] # <<val>>

\* C20: with wrap, step 1 and an output of twice the rows and columns of the
\* source whose top-left corner is a multiple of the source extents, pixel
\* (i, j) of the image returned is pixel (i mod ny, j mod nx) of the source.
C20_WrapTilesSource ==
    ( /\ pc = "done"
      /\ wrap
      /\ step = 1
      /\ ry = 2 * ny
      /\ rx = 2 * nx
      /\ Corner(yc, ry) % (2 * ny) = 0
      /\ Corner(xc, rx) % (2 * nx) = 0 )
    => /\ region.h = ry
       /\ region.w = rx
       /\ \A q \in Pix(ry, rx) : region.at[q] = im0[<<q[1] % ny, q[2] % nx>>]

\* C20, its case: a source of two columns tiled from a corner to the left of
\* the source, with the default interpolator.
C20_Witness ==
    /\ pc = "done"
    /\ wrap
    /\ step = 1
    /\ nx = 2
    /\ ry = 2 * ny
    /\ rx = 2 * nx
    /\ Corner(yc, ry) % (2 * ny) = 0
    /\ Corner(xc, rx) = -2 * nx
    /\ interpolator = "gradient"
    /\ region.at[<<0, 0>>] # region.at[<<0, 1>>]
    /\ region.at[<<0, 0>>] = region.at[<<0, 2>>]

(***************************************************************************)
(* A statement about the interpolator 'nearest' of extract.                *)
(***************************************************************************)
\* the closest integer to a position given in halves, a half going up
RoundOfHalves(a) == (a + 1) \div 2

\* the position on the source, in halves, of the pixel q of the region
SamplePos(q) ==
    <<(yc - ry * step) + 2 * step * q[1], (xc - rx * step) + 2 * step * q[2]>>

\* the position pos is used: the general path does not put val in its place
PosUsed(pos) ==
    \/ wrap
    \/ /\ pos[1] >= 0 /\ pos[1] < 2 * ny /\ pos[2] >= 0 /\ pos[2] < 2 * nx
       /\ IntOfHalves(pos[1]) + 1 < ny
       /\ IntOfHalves(pos[2]) + 1 < nx

\* C21: with the interpolator 'nearest', every pixel of the region whose
\* position on the source is used holds the source pixel at the closest
\* integer coordinates, (round (ypos), round (xpos)), a fractional part of
\* 0.5 selecting the next higher row or column.
C21_NearestRounds ==
    ( /\ pc = "done"
      /\ interpolator = "nearest"
      /\ ~FastPath(step, ny, nx, ry, rx, Corner(yc, ry), Corner(xc, rx)) )
    => \A q \in Pix(ry, rx) :
          PosUsed(SamplePos(q)) =>
              region.at[q] = im0[<<WrapIndex(RoundOfHalves(SamplePos(q)[1]), ny),
                                   WrapIndex(RoundOfHalves(SamplePos(q)[2]), nx)>>]

(***************************************************************************)
(* A statement about draw_circle_fast with fill.                           *)
(***************************************************************************)
\* the pixels of the outline of the circle of the call
Outline == CirclePixels(3 - 2 * radius, radius, 0)

\* the pixels inside the circle: nearer to the centre than the radius and not
\* on the outline
InsideCircle == {q \in Pix(ny, nx) \ Outline : Dist2(q) < radius * radius}

\* C22: when draw_circle_fast called with a fill has returned, the pixels
\* inside the circle hold the fill and the outline holds v.
C22_InsideHoldsFill ==
    (pc = "done" /\ fill # << >> /\ CircleInside /\ radius >= 1) =>
        /\ \A q \in InsideCircle : im[q] = fill
        /\ \A q \in Outline : im[q] = <<v>>

(***************************************************************************)
(* A statement about two blocks in a square buffer.                        *)
(***************************************************************************)
\* the upper left corners of the blocks of im
Corners ==
    {p \in Pix(ny - BlockSide + 1, nx - BlockSide + 1) :
        \A s \in BlockAt(p) : Ch0(im, s) = 1}

\* no pixel of one block touches a pixel of the other, not even at a corner
Apart ==
    \A p \in Corners : \A q \in Corners \ {p} :
        \A a \in BlockAt(p) : \A b \in BlockAt(q) :
            Abs(a[1] - b[1]) > 1 \/ Abs(a[2] - b[2]) > 1

\* the count is 2, a block has one label and the blocks differ
TwoRegions ==
    /\ count = 2
    /\ \A p \in Corners : \A a \in BlockAt(p) : lab[a] = lab[p]
    /\ \A p \in Corners : \A q \in Corners \ {p} : lab[p] # lab[q]

Before(a, b) ==
    \/ a[1] > b[1]
    \/ a[1] = b[1] /\ a[2] > b[2]
    \/ a[1] = b[1] /\ a[2] = b[2] /\ a[3] > b[3]

\* C24: the list returned by find_peaks is in descending order of value, and
\* peaks of one value are ordered by row and then by column (both descending,
\* the whole entry being what is compared).
C24_SortedByValueRowColumn ==
    pc = "done" =>
        \A i \in 1 .. Len(peaks) : \A j \in 1 .. Len(peaks) :
            i < j => Before(peaks[i], peaks[j])

\* a list with two peaks of one value in different rows
C24_Witness ==
    /\ pc = "done"
    /\ \E i \in 1 .. Len(peaks) : \E j \in 1 .. Len(peaks) :
          /\ i < j
          /\ peaks[i][1] = peaks[j][1]
          /\ peaks[i][2] > peaks[j][2]

\* a list with two peaks of one value in one row
C24_WitnessOneRow ==
    /\ pc = "done"
    /\ \E i \in 1 .. Len(peaks) : \E j \in 1 .. Len(peaks) :
          /\ i < j
          /\ peaks[i][1] = peaks[j][1]
          /\ peaks[i][2] = peaks[j][2]
          /\ peaks[i][3] > peaks[j][3]

(***************************************************************************)
(* Statements about the equivalence table of label_regions_slow.           *)
(***************************************************************************)
\* the labels of the same-valued causal neighbours of the pixel (y, x) that
\* is about to be processed
MatchSet ==
    LET m == Matches(im, lab, Ch0(im, <<y, x>>), Causal(con8, y, x, nx))
    IN {m[i] : i \in DOMAIN m}

\* the labels a and b resolve to one root in the table eq
SameRoot(eq, a, b) == Root(eq, a) = Root(eq, b)

\* C25: when a pixel with same-valued causal neighbours of two or more labels
\* is processed, afterwards all those labels resolve to one root, and any
\* two labels that resolved to one root before still do so.
C25_MergeKeepsEquivalences ==
    [][(pc = "rest" /\ Cardinality(MatchSet) >= 2) =>
          /\ \A a \in MatchSet : \A b \in MatchSet : SameRoot(equiv', a, b)
          /\ \A a \in 0 .. lastlabel : \A b \in 0 .. lastlabel :
                SameRoot(equiv, a, b) => SameRoot(equiv', a, b)]_vars

\* the first half of C25 alone: afterwards the labels of the neighbours
\* resolve to one root
C25_MatchesShareRoot ==
    [][(pc = "rest" /\ Cardinality(MatchSet) >= 2) =>
          \A a \in MatchSet : \A b \in MatchSet : SameRoot(equiv', a, b)]_vars

(***************************************************************************)
(* A statement about the pixels that fill_outline sets.                    *)
(***************************************************************************)
\* the pixels of the buffer whose value on entry differs from that of the
\* seed by less than the threshold
NearSeed ==
    {p \in Pix(ny, nx) : Abs(PixSum(im0, p) - PixSum(im0, seed)) < threshold}

\* the pixels joined to a pixel of front by a path of 4-neighbours in NearSeed
RECURSIVE FillGrow(_, _)
FillGrow(seen, front) ==
    IF front = {} THEN seen
    ELSE LET more == {q \in NearSeed \ seen :
                         \E p \in front : Abs(p[1] - q[1]) + Abs(p[2] - q[2]) = 1}
         IN FillGrow(seen \cup more, more)

\* the seed and the pixels reachable from it
Reached == FillGrow({seed}, {seed})

\* the case of the statement: one channel, a positive threshold, a seed inside
\* the buffer whose value is not within the threshold of the fill value
FillCase ==
    /\ nc = 1
    /\ threshold > 0
    /\ seed \in Pix(ny, nx)
    /\ Abs(PixSum(im0, seed) - v) >= threshold

\* C26: on a single-channel buffer, with a positive threshold and a seed value
\* at least the threshold away from the fill value, fill_outline returns with
\* exactly the seed and the pixels reachable from it set to the fill value and
\* every other pixel as it was.
C26_FillsExactlyReached ==
    (pc = "done" /\ FillCase) =>
        \A p \in Pix(ny, nx) :
            im[p] = IF p \in Reached THEN <<v>> ELSE im0[p]

\* a fill that went round a corner and left a pixel alone
C26_Witness ==
    /\ pc = "done"
    /\ FillCase
    /\ Cardinality(Reached) >= 3
    /\ Reached # Pix(ny, nx)
    /\ \A p \in Reached : im[p] = <<v>>
    /\ \E p \in Pix(ny, nx) \ Reached : im[p] = im0[p] /\ im[p] # <<v>>

(***************************************************************************)
(* A statement about the upper-right neighbour in label_regions_slow.      *)
(***************************************************************************)
\* the causal neighbours of a pixel under 8-connectivity: left, above,
\* upper-left and upper-right, those inside the buffer
CausalEight(p) ==
    {q \in Pix(ny, nx) :
        \/ q = <<p[1], p[2] - 1>>
        \/ q[1] = p[1] - 1 /\ Abs(q[2] - p[2]) <= 1}

\* C27: under 8-connectivity, when label_regions_slow has returned, every
\* pixel in a row y >= 1 and a column x <= nx-2 whose only same-valued causal
\* neighbour is the upper-right one carries the label of that neighbour.
C27_UpperRightIsCompared ==
    (pc = "done" /\ con8) =>
        \A p \in Pix(ny, nx) :
            ( /\ p[1] >= 1
              /\ p[2] <= nx - 2
              /\ {q \in CausalEight(p) : Ch0(im, q) = Ch0(im, p)}
                     = {<<p[1] - 1, p[2] + 1>>} )
            => lab[p] = lab[<<p[1] - 1, p[2] + 1>>]

\* C27 for the columns 1 .. nx-3 alone
C27_InnerColumns ==
    (pc = "done" /\ con8) =>
        \A p \in Pix(ny, nx) :
            ( /\ p[1] >= 1
              /\ p[2] >= 1
              /\ p[2] <= nx - 3
              /\ {q \in CausalEight(p) : Ch0(im, q) = Ch0(im, p)}
                     = {<<p[1] - 1, p[2] + 1>>} )
            => lab[p] = lab[<<p[1] - 1, p[2] + 1>>]

(***************************************************************************)
(* A statement about the shape of the equivalence table.                   *)
(***************************************************************************)
\* the number of lookups that lead from the label i to its root, or -1 when
\* more than fuel lookups do not reach one
RECURSIVE ChainLength(_, _, _)
ChainLength(eq, i, fuel) ==
    IF Eq(eq, i) = i THEN 0
    ELSE IF fuel = 0 THEN -1
    ELSE LET rest == ChainLength(eq, Eq(eq, i), fuel - 1)
         IN IF rest = -1 THEN -1 ELSE rest + 1

\* C28: at every point of label_regions_slow, equiv[i] <= i for every label
\* i, the chain from every label ends at a root within as many lookups as
\* there are labels, and the root of a label that is not a root is smaller
\* than the label, so that its remap entry exists when the tidying reaches it.
C28_EquivPointsDown ==
    (pc # "IndexError") =>
        /\ Len(equiv) = lastlabel + 1
        /\ \A i \in 0 .. lastlabel :
              /\ Eq(equiv, i) \in 0 .. i
              /\ ChainLength(equiv, i, Len(equiv)) >= 0
              /\ Eq(equiv, i) # i => Root(equiv, i) < i

\* a table with a chain of two lookups
C28_Witness ==
    /\ pc = "tidy"
    /\ \E i \in 0 .. lastlabel : ChainLength(equiv, i, Len(equiv)) = 2

(***************************************************************************)
(* A statement about the radial coordinate of hough_line.                  *)
(***************************************************************************)
\* C29: with the default origin, the offset radial coordinate r computed for
\* an edge pixel at the angular bin 0, r = x - xc + ny, is never negative.
C29_RadialNonNegative == \A i \in DOMAIN rad : rad[i] >= 0

\* an edge pixel with r < 0 whose vote was dropped although r < nr
C29_DroppedBelowZero ==
    /\ pc = "done"
    /\ rad # << >>
    /\ rad[1] < 0
    /\ \A q \in DOMAIN acc : acc[q] = 0
(***************************************************************************)
(* A statement about the seed of the fill of draw_circle.                  *)
(***************************************************************************)
\* C30: when draw_circle is called with a fill, the fill_outline that it
\* starts has the centre (yc, xc) of the circle as its seed.
C30_FillSeededAtCentre ==
    (pc \in {"start", "loop", "cut"} \/ (pc = "done" /\ fill # << >>)) =>
        seed = centre

\* C30 for the centres on the diagonal yc = xc alone
C30_DiagonalCentres ==
    ((pc \in {"start", "loop", "cut"} \/ (pc = "done" /\ fill # << >>))
        /\ centre[1] = centre[2])
    => seed = centre

====
